---- MODULE Spec2Model ----
(***************************************************************************)
(* Library-mode binding generation of uniffi_bindgen                       *)
(* (src/uniffi_bindgen/src/library_mode.rs): generate_bindings and its     *)
(* helpers calc_cdylib_name, find_sources, find_package_by_crate_name and  *)
(* load_udl_metadata, as a state machine.                                  *)
(*                                                                         *)
(* Strings whose characters matter (file names, crate, package and target  *)
(* names) are sequences of one-character strings, so that strip_prefix,    *)
(* strip_suffix and replace('-', "_") are computed, not assumed.           *)
(***************************************************************************)
EXTENDS Integers, Sequences, FiniteSets, TLC

VARIABLES
    library_path,      \* base name of the library_path argument (characters)
    crate_name,        \* the crate_name argument: None or Some(name)
    target_languages,  \* the target_languages argument (sequence)
    cargo_packages,    \* cargo_metadata.packages (sequence of Package)
    groups,            \* what extract_from_library + group_metadata yield
    udl_files,         \* the <<crate_root, name>> for which <root>/src/<name>.udl exists
    initial_configs,   \* Config::load_initial + update_from_*: crate name -> Config
    pc,                \* position inside the function being run
    cdylib_name,       \* let cdylib_name = calc_cdylib_name(library_path)
    sources,           \* let mut sources
    i,                 \* index of the inheritance loop (0-based, as in the code)
    emit_pos,          \* <<source index, language index>> of the dispatch loops
    emitted,           \* history: the (crate, language) pairs write_bindings got
    result,            \* None while running, then Ok(..) or Err(..)
    fold_count,        \* history: per Source (by position), folds received
    fold_maps,         \* history: per Source, the config_map folded into it
    pre_configs,       \* history: per Source, its Config before the pass
    files_read,        \* history: the UDL files handed to read_to_string
    full_sources,      \* history: sources as they stood when the pass ended
    resolve_name       \* argument of a stand-alone find_package_by_crate_name call

vars == <<library_path, crate_name, target_languages, cargo_packages, groups,
          udl_files, initial_configs, pc, cdylib_name, sources, i, emit_pos,
          emitted, result, fold_count, fold_maps, pre_configs, files_read,
          full_sources, resolve_name>>

(***************************************************************************)
(* Bounds of the model.                                                    *)
(***************************************************************************)
MaxNameLen == 4   \* longest library name X tried by calc_cdylib_name
MaxPkgs    == 2   \* packages in a build graph handed to the package resolver
MaxDeps    == 1   \* declared dependencies per package in the inheritance runs
MaxGroups  == 2   \* component groups in a full run
MaxUdl     == 2   \* UdlFile records in one component group
MaxLangs   == 2   \* requested target languages in a full run

(***************************************************************************)
(* Option, Result and characters.                                          *)
(***************************************************************************)
None == <<"None">>
Some(x) == <<"Some", x>>
IsSome(o) == o[1] = "Some"
Unwrap(o) == o[2]

Ok(v) == <<"Ok", v>>
Err(e) == <<"Err", e>>
IsOk(r) == r[1] = "Ok"
IsErr(r) == r[1] = "Err"

\* An anyhow error: the message template, the count it interpolates (0 when
\* the template has none) and the name it interpolates.
Error(msg, n, arg) == [msg |-> msg, n |-> n, arg |-> arg]

LIB == <<"l", "i", "b">>
SO == <<".", "s", "o">>
DLL == <<".", "d", "l", "l">>
DYLIB == <<".", "d", "y", "l", "i", "b">>
TXT == <<".", "t", "x", "t">>

\* str::strip_prefix
strip_prefix(s, p) ==
    IF Len(s) >= Len(p) /\ SubSeq(s, 1, Len(p)) = p
    THEN Some(SubSeq(s, Len(p) + 1, Len(s)))
    ELSE None

\* str::strip_suffix
strip_suffix(s, x) ==
    IF Len(s) >= Len(x) /\ SubSeq(s, Len(s) - Len(x) + 1, Len(s)) = x
    THEN Some(SubSeq(s, 1, Len(s) - Len(x)))
    ELSE None

\* Option::unwrap_or
unwrap_or(o, d) == IF IsSome(o) THEN Unwrap(o) ELSE d

\* str::replace('-', "_")
replace_hyphens(s) == [k \in 1..Len(s) |-> IF s[k] = "-" THEN "_" ELSE s[k]]

\* Utf8Path::file_name: nothing when the path has no final component
\* (modelled by the empty base name), else the base name.
file_name(path) == IF path = <<>> THEN None ELSE Some(path)

(***************************************************************************)
(* calc_cdylib_name                                                        *)
(***************************************************************************)
cdylib_extentions == <<SO, DLL, DYLIB>>

\* The `for ext in cdylib_extentions` loop from index k on.
RECURSIVE first_suffix(_, _)
first_suffix(filename, k) ==
    IF k > Len(cdylib_extentions) THEN None
    ELSE IF IsSome(strip_suffix(filename, cdylib_extentions[k]))
         THEN strip_suffix(filename, cdylib_extentions[k])
         ELSE first_suffix(filename, k + 1)

calc_cdylib_name(path) ==
    IF ~IsSome(file_name(path)) THEN None
    ELSE LET filename == unwrap_or(strip_prefix(Unwrap(file_name(path)), LIB),
                                   Unwrap(file_name(path)))
         IN first_suffix(filename, 1)

(***************************************************************************)
(* Names used in the runs.                                                 *)
(***************************************************************************)
N_a == <<"a">>
N_b == <<"b">>
N_m == <<"m">>
N_z == <<"z">>
N_c_r == <<"c", "_", "r">>
N_c_hy_r == <<"c", "-", "r">>
N_udl == <<"u">>

Swift == "swift"
Kotlin == "kotlin"
Languages == {Swift, Kotlin}

Keys == {"render_style", "package_name"}
ValsOf(k) == IF k = "render_style" THEN {"compact", "verbose"} ELSE {"uniffi"}
Vals == UNION {ValsOf(k) : k \in Keys}
\* A Config: the settings that are set, each with its value.
Configs == UNION {{c \in [K -> Vals] : \A k \in K : c[k] \in ValsOf(k)} : K \in SUBSET Keys}

(***************************************************************************)
(* cargo_metadata::Package and uniffi_meta::MetadataGroup                  *)
(***************************************************************************)
\* name, targets (their names), dependencies (their names) and the parent
\* directory of manifest_path (a manifest path always has one).
Package(name, targets, dependencies) ==
    [name |-> name, targets |-> targets, dependencies |-> dependencies,
     crate_root |-> name]

UdlFile(name) == [kind |-> "UdlFile", name |-> name]
Func(name) == [kind |-> "Func", name |-> name]

\* A group of `n` UdlFile records followed by one function record.
Group(crate, n) ==
    [namespace |-> [crate_name |-> crate],
     items |-> [k \in 1..(n + 1) |->
                  IF k <= n THEN UdlFile(N_udl \o [j \in 1..k |-> "x"])
                  ELSE Func(crate)]]

(***************************************************************************)
(* find_package_by_crate_name                                              *)
(***************************************************************************)
PackagesMsg == "cargo metadata returned {n} packages for crate name {crate_name}"

target_matches(p, name) == \E t \in p.targets : replace_hyphens(t) = name

\* A slip: the first matching package is taken, however many match.
find_first_package(packages, name) ==
    LET Keep(p) == target_matches(p, name)
        matching == SelectSeq(packages, Keep)
    IN IF Len(matching) >= 1 THEN Ok(matching[1])
       ELSE Err(Error(PackagesMsg, Len(matching), name))

find_package_by_crate_name(packages, name) ==
    LET Keep(p) == target_matches(p, name)
        matching == SelectSeq(packages, Keep)
    IN IF Len(matching) = 1 THEN Ok(matching[1])
       ELSE Err(Error(PackagesMsg, Len(matching), name))

(***************************************************************************)
(* load_udl_metadata.  `ext` names the external call that fails in this    *)
(* step ("none" when all succeed).  Yields the Result and the files read.  *)
(***************************************************************************)
IsUdlFile(item) == item.kind = "UdlFile"

MultipleUdlMsg == "{n} UDL files found for {crate_name}"

\* uniffi_udl::parse_udl of <crate_root>/src/<name>.udl
ParsedUdl(name) == <<[kind |-> "FromUdl", name |-> name]>>

\* A slip: with several UdlFile records the first one is loaded.
load_first_udl(group, crate_root, name, files, ext) ==
    LET udl_items == SelectSeq(group.items, IsUdlFile)
    IN IF Len(udl_items) = 0 THEN [res |-> Ok(None), read |-> {}]
       ELSE LET ci_name == udl_items[1].name
                ci_path == <<crate_root, ci_name>>
            IN IF ci_path \in files
               THEN [res |-> Ok(Some(ParsedUdl(ci_name))), read |-> {ci_path}]
               ELSE [res |-> Err(Error("{ci_path} not found", 0, ci_name)), read |-> {}]

load_udl_metadata(group, crate_root, name, files, ext) ==
    LET udl_items == SelectSeq(group.items, IsUdlFile)
    IN IF Len(udl_items) = 0 THEN [res |-> Ok(None), read |-> {}]
       ELSE IF Len(udl_items) = 1 THEN
            LET ci_name == udl_items[1].name
                ci_path == <<crate_root, ci_name>>
            IN IF ci_path \in files
               THEN IF ext = "read_to_string"
                    THEN [res |-> Err(Error("io", 0, ci_name)), read |-> {ci_path}]
                    ELSE IF ext = "parse_udl"
                    THEN [res |-> Err(Error("udl syntax", 0, ci_name)), read |-> {ci_path}]
                    ELSE [res |-> Ok(Some(ParsedUdl(ci_name))), read |-> {ci_path}]
               ELSE [res |-> Err(Error("{ci_path} not found", 0, ci_name)), read |-> {}]
       ELSE [res |-> Err(Error(MultipleUdlMsg, Len(udl_items), name)),
             read |-> {}]

(***************************************************************************)
(* Config::update_from_dependency_configs: the Config type is not in this  *)
(* file.  Its contract: every setting the Config lacks and some Config of  *)
(* the map has is filled in from the map; its own settings keep their      *)
(* values.  When several Configs of the map set the same missing key, the  *)
(* map's iteration order (unspecified for a HashMap) picks among them: all *)
(* outcomes are kept.                                                      *)
(***************************************************************************)
update_from_dependency_configs(own, config_map) ==
    LET inherited == UNION {DOMAIN config_map[t] : t \in DOMAIN config_map}
    IN {c \in [DOMAIN own \cup inherited -> Vals] :
          /\ \A k \in DOMAIN own : c[k] = own[k]
          /\ \A k \in inherited \ DOMAIN own :
                \E t \in DOMAIN config_map :
                    k \in DOMAIN config_map[t] /\ c[k] = config_map[t][k]}

(***************************************************************************)
(* The body of the inheritance loop for 1-based position idx (= i + 1):    *)
(* the dependency names of the Source's package, and the map collected     *)
(* from the other Sources.                                                 *)
(***************************************************************************)
dependencies_of(source) == source.package.dependencies

\* A slip: only sources_before is searched, sources_after is forgotten.
passing_before_only(srcs, idx) ==
    {j \in 1..(idx - 1) :
        srcs[j].package.name \in dependencies_of(srcs[idx])}

\* A slip: the dependency names are compared with the crate name.
passing_by_crate_name(srcs, idx) ==
    {j \in (1..Len(srcs)) \ {idx} :
        srcs[j].crate_name \in dependencies_of(srcs[idx])}

\* The positions of other_sources that pass the filter_map.
passing(srcs, idx) ==
    {j \in (1..Len(srcs)) \ {idx} :
        srcs[j].package.name \in dependencies_of(srcs[idx])}

Max(S) == CHOOSE x \in S : \A y \in S : y <= x

\* collect() into a HashMap: a later entry with the same key replaces an
\* earlier one.
config_map_of(srcs, idx) ==
    LET P == passing(srcs, idx)
    IN [name \in {srcs[j].crate_name : j \in P} |->
          srcs[Max({j \in P : srcs[j].crate_name = name})].config]

Source(package, name, ci, config) ==
    [package |-> package, crate_name |-> name, ci |-> ci, config |-> config]

(***************************************************************************)
(* generate_bindings, step by step.                                        *)
(***************************************************************************)
\* `bail!` or `?`: the function returns the error.
Fail(e) == /\ result' = Err(e)
           /\ pc' = "done"

\* find_sources has returned srcs: the inheritance loop is entered.
BeginPass(srcs) ==
    /\ sources' = srcs
    /\ pre_configs' = [j \in 1..Len(srcs) |-> srcs[j].config]
    /\ fold_count' = [j \in 1..Len(srcs) |-> 0]
    /\ fold_maps' = [j \in 1..Len(srcs) |-> <<>>]
    /\ i' = 0
    /\ pc' = "inherit"

StartExts == {"none", "cargo_metadata", "extract_from_library", "group_metadata"}

\* Lines 41-45 up to the first group: cargo metadata, calc_cdylib_name, and
\* the extraction and grouping that open find_sources.
Start ==
    /\ pc = "start"
    /\ \E ext \in StartExts :
         IF ext = "cargo_metadata"
         THEN /\ Fail(Error("error running cargo metadata", 0, <<>>))
              /\ UNCHANGED <<cdylib_name, sources, pre_configs, fold_count, fold_maps, i>>
         ELSE /\ cdylib_name' = calc_cdylib_name(library_path)
              /\ IF ext # "none"
                 THEN /\ Fail(Error(ext, 0, <<>>))
                      /\ UNCHANGED <<sources, pre_configs, fold_count, fold_maps, i>>
                 ELSE IF groups = <<>>
                 THEN /\ BeginPass(<<>>)
                      /\ UNCHANGED result
                 ELSE /\ pc' = "find"
                      /\ UNCHANGED <<result, sources, pre_configs, fold_count, fold_maps, i>>
    /\ UNCHANGED <<library_path, crate_name, target_languages, cargo_packages,
                   groups, udl_files, initial_configs, emit_pos, emitted,
                   files_read, full_sources, resolve_name>>

FindExts == {"none", "read_to_string", "parse_udl", "add_metadata(udl)",
             "add_metadata(group)", "load_initial"}

\* The closure of find_sources for one group (lines 126-149): the Result
\* and the files read on the way.
source_of(group, packages, files, configs, ext) ==
    LET name == group.namespace.crate_name
        found == find_package_by_crate_name(packages, name)
        package == found[2]
        udl == load_udl_metadata(group, package.crate_root, name, files, ext)
        metadata == udl.res[2]
        ci == (IF IsSome(metadata) THEN Unwrap(metadata) ELSE <<>>) \o group.items
    IN IF IsErr(found) THEN [res |-> found, read |-> {}]
       ELSE IF IsErr(udl.res) THEN udl
       ELSE IF IsSome(metadata) /\ ext = "add_metadata(udl)"
       THEN [res |-> Err(Error(ext, 0, name)), read |-> udl.read]
       ELSE IF ext \in {"add_metadata(group)", "load_initial"}
       THEN [res |-> Err(Error(ext, 0, name)), read |-> udl.read]
       ELSE [res |-> Ok(Source(package, name, ci, configs[name])), read |-> udl.read]

\* The next group goes through the closure; the collect() of line 150 keeps
\* the Sources so far, or drops them all at the first error.
FindSource ==
    /\ pc = "find"
    /\ Len(sources) < Len(groups)
    /\ \E ext \in FindExts :
         LET made == source_of(groups[Len(sources) + 1], cargo_packages,
                               udl_files, initial_configs, ext)
         IN /\ files_read' = files_read \cup made.read
            /\ IF IsErr(made.res)
               THEN /\ Fail(made.res[2])
                    /\ sources' = <<>>
                    /\ UNCHANGED <<pre_configs, fold_count, fold_maps, i>>
               ELSE IF Len(sources) + 1 = Len(groups)
               THEN BeginPass(Append(sources, made.res[2])) /\ UNCHANGED result
               ELSE /\ sources' = Append(sources, made.res[2])
                    /\ UNCHANGED <<result, pc, pre_configs, fold_count, fold_maps, i>>
    /\ UNCHANGED <<library_path, crate_name, target_languages, cargo_packages,
                   groups, udl_files, initial_configs, cdylib_name, emit_pos,
                   emitted, full_sources, resolve_name>>

\* A slip: the range stops one short, at `sources.len() - 1`.
loop_range_end_short(srcs) == IF Len(srcs) = 0 THEN 0 ELSE Len(srcs) - 1

\* The end of the range `0..sources.len()` of line 46.
loop_range_end(srcs) == Len(srcs)

\* One iteration of `for i in 0..sources.len()` (lines 46-65).
InheritStep ==
    /\ pc = "inherit"
    /\ i < loop_range_end(sources)
    /\ LET idx == i + 1
           config_map == config_map_of(sources, idx)
       IN /\ \E c \in update_from_dependency_configs(sources[idx].config, config_map) :
                sources' = [sources EXCEPT ![idx].config = c]
          /\ fold_count' = [fold_count EXCEPT ![idx] = @ + 1]
          /\ fold_maps' = [fold_maps EXCEPT ![idx] = config_map]
    /\ i' = i + 1
    /\ UNCHANGED <<library_path, crate_name, target_languages, cargo_packages,
                   groups, udl_files, initial_configs, pc, cdylib_name, emit_pos,
                   emitted, result, pre_configs, files_read, full_sources,
                   resolve_name>>

NotFoundMsg == "Crate {crate_name} not found in {library_path}"
AmbiguousMsg == "{n} crates named {crate_name} found in {library_path}"

\* A slip: the search stops at the first match.
matches_first(srcs, name) ==
    LET Test(s) == s.crate_name = name
        all == SelectSeq(srcs, Test)
    IN IF all = <<>> THEN <<>> ELSE <<all[1]>>

\* The Sources kept by the filter of lines 69-71.
matches_of(srcs, name) ==
    LET Test(s) == s.crate_name = name IN SelectSeq(srcs, Test)

\* Lines 66-77: create_dir_all, then the crate_name filter.
Select ==
    /\ pc = "inherit"
    /\ i = loop_range_end(sources)
    /\ full_sources' = sources
    /\ \E ext \in {"none", "create_dir_all"} :
         IF ext = "create_dir_all"
         THEN Fail(Error(ext, 0, <<>>)) /\ UNCHANGED <<sources, emit_pos>>
         ELSE IF IsSome(crate_name)
         THEN LET matches == matches_of(sources, Unwrap(crate_name))
              IN IF Len(matches) = 0
                 THEN /\ Fail(Error(NotFoundMsg, 0, Unwrap(crate_name)))
                      /\ sources' = <<>>
                      /\ UNCHANGED emit_pos
                 ELSE IF Len(matches) = 1
                 THEN /\ sources' = <<matches[Len(matches)]>>
                      /\ pc' = "emit"
                      /\ emit_pos' = <<1, 1>>
                      /\ UNCHANGED result
                 ELSE /\ Fail(Error(AmbiguousMsg, Len(matches), Unwrap(crate_name)))
                      /\ sources' = <<>>
                      /\ UNCHANGED emit_pos
         ELSE /\ pc' = "emit"
              /\ emit_pos' = <<1, 1>>
              /\ UNCHANGED <<sources, result>>
    /\ UNCHANGED <<library_path, crate_name, target_languages, cargo_packages,
                   groups, udl_files, initial_configs, cdylib_name, i, emitted,
                   fold_count, fold_maps, pre_configs, files_read, resolve_name>>

ValidationMsg ==
    "Generate bindings for {language} requires a cdylib, but {library_path} was given"

\* A slip: the check is forgotten.
needs_cdylib_unchecked(name, language) == FALSE

\* The condition of line 81.
needs_cdylib(name, language) == ~IsSome(name) /\ language # Swift

\* The body of the inner loop (lines 81-90) for the pair at emit_pos.
Emit ==
    /\ pc = "emit"
    /\ emit_pos[1] <= Len(sources)
    /\ emit_pos[2] <= Len(target_languages)
    /\ LET source == sources[emit_pos[1]]
           language == target_languages[emit_pos[2]]
       IN IF needs_cdylib(cdylib_name, language)
          THEN /\ Fail(Error(ValidationMsg, 0, library_path))
               /\ UNCHANGED <<emitted, emit_pos>>
          ELSE /\ emitted' = Append(emitted, <<source.crate_name, language>>)
               /\ \E ext \in {"none", "write_bindings"} :
                    IF ext = "write_bindings"
                    THEN Fail(Error(ext, 0, source.crate_name)) /\ UNCHANGED emit_pos
                    ELSE /\ emit_pos' = <<emit_pos[1], emit_pos[2] + 1>>
                         /\ UNCHANGED <<pc, result>>
    /\ UNCHANGED <<library_path, crate_name, target_languages, cargo_packages,
                   groups, udl_files, initial_configs, cdylib_name, sources, i,
                   fold_count, fold_maps, pre_configs, files_read, full_sources,
                   resolve_name>>

\* The inner loop is over: the outer loop of line 79 takes the next Source.
NextSource ==
    /\ pc = "emit"
    /\ emit_pos[1] <= Len(sources)
    /\ emit_pos[2] > Len(target_languages)
    /\ emit_pos' = <<emit_pos[1] + 1, 1>>
    /\ UNCHANGED <<library_path, crate_name, target_languages, cargo_packages,
                   groups, udl_files, initial_configs, pc, cdylib_name, sources,
                   i, emitted, result, fold_count, fold_maps, pre_configs,
                   files_read, full_sources, resolve_name>>

\* Line 94: Ok(sources).
Finish ==
    /\ pc = "emit"
    /\ emit_pos[1] > Len(sources)
    /\ result' = Ok(sources)
    /\ pc' = "done"
    /\ UNCHANGED <<library_path, crate_name, target_languages, cargo_packages,
                   groups, udl_files, initial_configs, cdylib_name, sources, i,
                   emit_pos, emitted, fold_count, fold_maps, pre_configs,
                   files_read, full_sources, resolve_name>>

Next == Start \/ FindSource \/ InheritStep \/ Select \/ Emit \/ NextSource \/ Finish

(***************************************************************************)
(* Inputs of the runs.                                                     *)
(***************************************************************************)
SeqsUpTo(S, n) == UNION {[1..k -> S] : k \in 0..n}

RECURSIVE SortedSeq(_)
SortedSeq(S) ==
    IF S = {} THEN <<>>
    ELSE LET m == CHOOSE x \in S : \A y \in S : x <= y
         IN <<m>> \o SortedSeq(S \ {m})

\* libu.so and u.txt
LibraryPaths == {LIB \o <<"u">> \o SO, <<"u">> \o TXT}

PkgNames == <<N_c_hy_r, N_m, N_a>>
PkgTargets == <<{N_c_hy_r}, {N_m}, {N_a, N_b}>>

\* The build graph: package c-r (crate c_r), package m, and package a with
\* the two targets a and b; deps[k] are the dependencies of the k-th.
Graph(deps) == [k \in 1..Len(PkgNames) |-> Package(PkgNames[k], PkgTargets[k], deps[k])]

ChainDeps == <<{}, {N_c_hy_r}, {N_m}>>

UdlNames == {N_udl \o [j \in 1..k |-> "x"] : k \in 1..MaxUdl}
AllUdlFiles == {<<PkgNames[k], n>> : k \in 1..Len(PkgNames), n \in UdlNames}

DefaultConfigs ==
    (N_c_r :> [render_style |-> "verbose"]) @@ (N_m :> [render_style |-> "compact"])
    @@ (N_a :> <<>>) @@ (N_b :> <<>>)

\* Crates a full run may find in the binary, in extraction order; z belongs
\* to no package.
RunCrates == <<N_m, N_a, N_z>>

\* Group lists with pairwise distinct namespaces, as group_metadata yields.
GroupLists ==
    UNION {
      LET order == SortedSeq(S)
      IN {[k \in 1..Len(order) |-> Group(RunCrates[order[k]], n[k])] :
            n \in [1..Len(order) -> 0..MaxUdl]} :
      S \in {T \in SUBSET (1..Len(RunCrates)) : Cardinality(T) <= MaxGroups}}

\* Nothing has run yet.
InitRun ==
    /\ cdylib_name = None
    /\ sources = <<>>
    /\ i = 0
    /\ emit_pos = <<1, 1>>
    /\ emitted = <<>>
    /\ result = None
    /\ fold_count = <<>>
    /\ fold_maps = <<>>
    /\ pre_configs = <<>>
    /\ files_read = {}
    /\ full_sources = <<>>
    /\ resolve_name = <<>>

Init ==
    /\ library_path \in LibraryPaths
    /\ crate_name \in {None, Some(N_a)}
    /\ target_languages \in SeqsUpTo(Languages, MaxLangs)
    /\ cargo_packages = Graph(ChainDeps)
    /\ groups \in GroupLists
    /\ udl_files \in {{}, AllUdlFiles}
    /\ initial_configs = DefaultConfigs
    /\ pc = "start"
    /\ InitRun

Spec == Init /\ [][Next]_vars

(***************************************************************************)
(* Runs whose group list may repeat a namespace: group_metadata never      *)
(* yields one, and the match of lines 72-76 defends against it.            *)
(***************************************************************************)
InitSel ==
    /\ library_path \in LibraryPaths
    /\ crate_name \in {None, Some(N_a), Some(N_z)}
    /\ target_languages \in SeqsUpTo(Languages, MaxLangs)
    /\ cargo_packages = Graph(ChainDeps)
    /\ groups \in {[k \in DOMAIN names |-> Group(names[k], 0)] :
                     names \in SeqsUpTo({N_a, N_m}, MaxGroups)}
    /\ udl_files = {}
    /\ initial_configs = DefaultConfigs
    /\ pc = "start"
    /\ InitRun

SpecSel == InitSel /\ [][Next]_vars

(***************************************************************************)
(* The inheritance pass alone, over every dependency relation of the three *)
(* packages with at most MaxDeps dependencies each and every choice of     *)
(* Configs: find_sources has just returned the Sources of the list.        *)
(***************************************************************************)
DepSets == {D \in SUBSET {PkgNames[k] : k \in 1..Len(PkgNames)} : Cardinality(D) <= MaxDeps}

\* c_r, m, a (three packages) and a, b, m (a and b are targets of package a)
PassCrateLists == {<<N_c_r, N_m, N_a>>, <<N_a, N_b, N_m>>}

InitPass ==
    /\ library_path = LIB \o <<"u">> \o SO
    /\ crate_name = None
    /\ target_languages = <<Kotlin>>
    /\ \E deps \in [1..Len(PkgNames) -> DepSets] : cargo_packages = Graph(deps)
    /\ \E names \in PassCrateLists :
         /\ groups = [k \in DOMAIN names |-> Group(names[k], 0)]
         /\ initial_configs \in [{names[k] : k \in DOMAIN names} -> Configs]
    /\ udl_files = {}
    /\ cdylib_name = calc_cdylib_name(library_path)
    /\ sources = [k \in DOMAIN groups |->
                    source_of(groups[k], cargo_packages, udl_files,
                              initial_configs, "none").res[2]]
    /\ pre_configs = [k \in DOMAIN groups |-> sources[k].config]
    /\ fold_count = [k \in DOMAIN groups |-> 0]
    /\ fold_maps = [k \in DOMAIN groups |-> <<>>]
    /\ i = 0
    /\ pc = "inherit"
    /\ emit_pos = <<1, 1>>
    /\ emitted = <<>>
    /\ result = None
    /\ files_read = {}
    /\ full_sources = <<>>
    /\ resolve_name = <<>>

NextPass == InheritStep

SpecPass == InitPass /\ [][NextPass]_vars

(***************************************************************************)
(* calc_cdylib_name alone, on the base names lib<X>.so, lib<X>.dylib,      *)
(* <X>.dll, <X>.txt and <X> for every X over the alphabet l, i, b, u.      *)
(***************************************************************************)
LibNames == SeqsUpTo({"l", "i", "b", "u"}, MaxNameLen)

CdylibPaths ==
    UNION {{LIB \o X \o SO, LIB \o X \o DYLIB, X \o DLL, X \o TXT, X} : X \in LibNames}

InitCdylib ==
    /\ library_path \in CdylibPaths
    /\ crate_name = None
    /\ target_languages = <<>>
    /\ cargo_packages = <<>>
    /\ groups = <<>>
    /\ udl_files = {}
    /\ initial_configs = <<>>
    /\ pc = "calc_cdylib_name"
    /\ InitRun

CalcCdylibName ==
    /\ pc = "calc_cdylib_name"
    /\ cdylib_name' = calc_cdylib_name(library_path)
    /\ pc' = "calc_cdylib_name returned"
    /\ UNCHANGED <<library_path, crate_name, target_languages, cargo_packages,
                   groups, udl_files, initial_configs, sources, i, emit_pos,
                   emitted, result, fold_count, fold_maps, pre_configs,
                   files_read, full_sources, resolve_name>>

NextCdylib == CalcCdylibName

SpecCdylib == InitCdylib /\ [][NextCdylib]_vars

(***************************************************************************)
(* find_package_by_crate_name alone, on build graphs of at most MaxPkgs    *)
(* packages, each with any targets among a, a-b and a_b.                   *)
(***************************************************************************)
N_a_hy_b == <<"a", "-", "b">>
N_a_b == <<"a", "_", "b">>
TargetNames == {N_a, N_a_hy_b, N_a_b}

\* The k-th package of a graph is named p, pp, ppp, ...
GraphOfTargets(targets) ==
    [k \in DOMAIN targets |-> Package([j \in 1..k |-> "p"], targets[k], {})]

InitPkg ==
    /\ library_path = <<>>
    /\ crate_name = None
    /\ target_languages = <<>>
    /\ \E targets \in SeqsUpTo(SUBSET TargetNames, MaxPkgs) :
         cargo_packages = GraphOfTargets(targets)
    /\ resolve_name \in TargetNames \cup {N_z}
    /\ groups = <<>>
    /\ udl_files = {}
    /\ initial_configs = <<>>
    /\ pc = "find_package_by_crate_name"
    /\ cdylib_name = None
    /\ sources = <<>>
    /\ i = 0
    /\ emit_pos = <<1, 1>>
    /\ emitted = <<>>
    /\ result = None
    /\ fold_count = <<>>
    /\ fold_maps = <<>>
    /\ pre_configs = <<>>
    /\ files_read = {}
    /\ full_sources = <<>>

FindPackage ==
    /\ pc = "find_package_by_crate_name"
    /\ result' = find_package_by_crate_name(cargo_packages, resolve_name)
    /\ pc' = "find_package_by_crate_name returned"
    /\ UNCHANGED <<library_path, crate_name, target_languages, cargo_packages,
                   groups, udl_files, initial_configs, cdylib_name, sources, i,
                   emit_pos, emitted, fold_count, fold_maps, pre_configs,
                   files_read, full_sources, resolve_name>>

NextPkg == FindPackage

SpecPkg == InitPkg /\ [][NextPkg]_vars

(***************************************************************************)
(* The inheritance pass (checked under SpecPass).                          *)
(***************************************************************************)
PassEnded == pc = "inherit" /\ i = Len(sources)

Positions == DOMAIN sources

\* The package of the Source at b lists the package of the Source at a.
Declares(b, a) == sources[a].package.name \in sources[b].package.dependencies

\* C1: when A's package declares no dependencies and B's package declares
\* A's, then after the pass B's Config holds every key of A's Config that B
\* had not set, and B's own settings have the values they had before.
C1_DirectDependency ==
    PassEnded =>
      \A a \in Positions, b \in Positions :
        (sources[a].package.dependencies = {} /\ Declares(b, a)) =>
          /\ \A k \in DOMAIN pre_configs[a] \ DOMAIN pre_configs[b] :
                k \in DOMAIN sources[b].config
          /\ \A k \in DOMAIN pre_configs[b] :
                k \in DOMAIN sources[b].config
                /\ sources[b].config[k] = pre_configs[b][k]

\* B, processed before A, has inherited a key from A and kept its own value
\* of a key on which the two disagree.
C1_Witness ==
    /\ PassEnded
    /\ \E a \in Positions, b \in Positions :
         /\ b < a
         /\ sources[a].package.dependencies = {}
         /\ Declares(b, a)
         /\ \E k \in DOMAIN pre_configs[a] :
              k \notin DOMAIN pre_configs[b] /\ sources[b].config[k] = pre_configs[a][k]
         /\ \E k \in DOMAIN pre_configs[a] \cap DOMAIN pre_configs[b] :
              pre_configs[a][k] # pre_configs[b][k]

\* C2: when A's package declares B's, B's declares C's and A's does not
\* declare C's (three packages), a key set before the pass in C's Config
\* only is not in A's Config after the pass.
C2_NotTransitive ==
    PassEnded =>
      \A a \in Positions, b \in Positions, c \in Positions :
        ( /\ Cardinality({sources[a].package.name, sources[b].package.name,
                          sources[c].package.name}) = 3
          /\ Declares(a, b) /\ Declares(b, c) /\ ~Declares(a, c) ) =>
          \A k \in DOMAIN pre_configs[c] :
            (\A o \in Positions \ {c} : k \notin DOMAIN pre_configs[o]) =>
              k \notin DOMAIN sources[a].config

\* The Sources with the Configs they had before the pass.
pre_sources == [j \in Positions |-> [sources[j] EXCEPT !.config = pre_configs[j]]]

\* C8: the pass gives every Source the Config it gets when it is processed
\* first, that is from the Configs its dependencies had before the pass;
\* this is what makes the result the same for every order of the list.
C8_OrderIndependent ==
    PassEnded =>
      \A s \in Positions :
        sources[s].config \in
          update_from_dependency_configs(pre_configs[s], config_map_of(pre_sources, s))

\* The mapping the claim describes for the Source at s: the other Sources
\* whose crate identity is among the declared dependencies.
ByCrateIdentity(s) ==
    {t \in Positions \ {s} : sources[t].crate_name \in sources[s].package.dependencies}

\* The other Sources whose package name is among the declared dependencies.
ByPackageName(s) ==
    {t \in Positions \ {s} : sources[t].package.name \in sources[s].package.dependencies}

\* The Config of the Source at t when the Source at s is processed.
ConfigSeenBy(s, t) == IF t < s THEN sources[t].config ELSE pre_configs[t]

\* C10 as stated: the keys of the mapping folded into S are the crate
\* identities of the other Sources whose crate identity is a declared
\* dependency of S's package (here for Sources of pairwise different
\* packages, none of which lists itself).
C10_KeysByCrateIdentity ==
    ( /\ PassEnded
      /\ \A s \in Positions : ~Declares(s, s)
      /\ \A s \in Positions, t \in Positions :
            s # t => sources[s].package.name # sources[t].package.name ) =>
      \A s \in Positions :
        DOMAIN fold_maps[s] = {sources[t].crate_name : t \in ByCrateIdentity(s)}

\* C10, amended: the keys of the mapping folded into S are the crate
\* identities of the other Sources whose package name is a declared
\* dependency of S's package, each mapped to that Source's Config as it is
\* when S is processed; S's own crate identity is never a key.
C10_KeysByPackageName ==
    PassEnded =>
      \A s \in Positions :
        /\ DOMAIN fold_maps[s] = {sources[t].crate_name : t \in ByPackageName(s)}
        /\ \A t \in ByPackageName(s) :
             fold_maps[s][sources[t].crate_name] = ConfigSeenBy(s, t)
        /\ sources[s].crate_name \notin DOMAIN fold_maps[s]

\* A package that lists itself: its Source a inherits from its sibling b,
\* whose crate identity is not the package's name, and not from itself.
C10_Witness ==
    /\ PassEnded
    /\ \E s \in Positions, t \in Positions :
         /\ s # t
         /\ Declares(s, s)
         /\ sources[t].crate_name # sources[t].package.name
         /\ sources[t].crate_name \in DOMAIN fold_maps[s]

(***************************************************************************)
(* Full runs (checked under Spec, the selector under SpecSel).             *)
(***************************************************************************)
NoCdylib == ~IsSome(calc_cdylib_name(library_path))

RequiresCdylib(language) == language # Swift

NonSwiftRequested ==
    \E k \in DOMAIN target_languages : RequiresCdylib(target_languages[k])

\* The errors of lines 41-66, before the selector.
EarlyMsgs ==
    ((StartExts \cup FindExts \cup {"create_dir_all"}) \ {"none"})
    \cup {PackagesMsg, MultipleUdlMsg, "{ci_path} not found", "io", "udl syntax"}

Failed == pc = "done" /\ IsErr(result)
FailedWith(msg) == Failed /\ result[2].msg = msg

\* The selector has run and let the run go on to the dispatch loops.
DispatchEntered ==
    \/ pc = "emit"
    \/ pc = "done" /\ IsOk(result)
    \/ FailedWith(ValidationMsg)
    \/ FailedWith("write_bindings")

\* C3 as stated, for runs that reach the dispatch loops with a Source:
\* without a cdylib name and with a language other than Swift requested,
\* write_bindings is invoked for no pair and the run ends with the
\* validation error.
C3_ValidationBeforeAnyEmission ==
    (NoCdylib /\ NonSwiftRequested /\ DispatchEntered /\ sources # <<>>) =>
       /\ emitted = <<>>
       /\ pc = "done" => FailedWith(ValidationMsg)

\* The position of the first requested language other than Swift.
FirstNonSwift ==
    CHOOSE k \in DOMAIN target_languages :
        /\ RequiresCdylib(target_languages[k])
        /\ \A j \in 1..(k - 1) : ~RequiresCdylib(target_languages[j])

\* C3, amended: without a cdylib name, write_bindings is never invoked for
\* a language other than Swift; a run that reaches the dispatch loops with a
\* Source and such a language requested does not succeed; when it ends with
\* the validation error, write_bindings has been invoked exactly for the
\* first Source and the Swift entries that precede the first other language;
\* and when the first requested language is not Swift, it ends with the
\* validation error and no invocation at all.
C3_ValidationPerPair ==
    NoCdylib =>
       /\ \A k \in DOMAIN emitted : emitted[k][2] = Swift
       /\ (pc = "done" /\ IsOk(result)) => (sources = <<>> \/ ~NonSwiftRequested)
       /\ FailedWith(ValidationMsg) =>
             emitted = [k \in 1..(FirstNonSwift - 1) |-> <<sources[1].crate_name, Swift>>]
       /\ ( /\ pc = "done" /\ DispatchEntered /\ sources # <<>>
            /\ target_languages # <<>> /\ RequiresCdylib(target_languages[1]) ) =>
             (FailedWith(ValidationMsg) /\ emitted = <<>>)

\* The validation error, after Swift bindings have been written.
C3_Witness == NoCdylib /\ FailedWith(ValidationMsg) /\ emitted # <<>>

Folded == {idx \in DOMAIN fold_count : fold_count[idx] > 0}

\* find_sources returned an error.
MaterializeFailed ==
    Failed /\ result[2].msg \in EarlyMsgs \ {"cargo_metadata", "create_dir_all"}

\* C9: no Source is folded twice; a fold happens only when every group has
\* become a Source and nothing has been emitted yet; the emitter is invoked
\* only when every Source has been folded; and when find_sources fails
\* there is no fold and no emission.
C9_FoldOrdering ==
    /\ \A idx \in DOMAIN fold_count : fold_count[idx] <= 1
    /\ Folded # {} => (Len(pre_configs) = Len(groups) /\ pc \notin {"start", "find"})
    /\ (pc = "inherit" /\ i < Len(sources)) => emitted = <<>>
    /\ emitted # <<>> => Folded = 1..Len(groups)
    /\ MaterializeFailed => (Folded = {} /\ emitted = <<>>)

\* Two Sources, both folded, then bindings written and the run done.
C9_Witness ==
    /\ pc = "done" /\ IsOk(result)
    /\ emitted # <<>>
    /\ Len(groups) = 2
    /\ Folded = {1, 2}

UdlCount(group) ==
    Cardinality({k \in DOMAIN group.items : group.items[k].kind = "UdlFile"})

\* The UDL file named by the only UdlFile record of the group is absent.
UdlAbsent(group) ==
    LET k == CHOOSE j \in DOMAIN group.items : group.items[j].kind = "UdlFile"
        found == find_package_by_crate_name(cargo_packages, group.namespace.crate_name)
    IN IsErr(found) \/ <<found[2].crate_root, group.items[k].name>> \notin udl_files

\* C6: a step of find_sources on a group with no UdlFile record reads no
\* file, and the Source it makes has exactly the group's records; on a
\* group with one UdlFile record whose file is absent, and on a group with
\* two or more, it reads no file, the run ends with an error and no Source
\* is kept.
C6_Materializer ==
    [][ pc = "find" =>
          LET group == groups[Len(sources) + 1]
              n == UdlCount(group)
              fatal == /\ pc' = "done" /\ IsErr(result')
                       /\ sources' = <<>>
                       /\ files_read' = files_read
          IN /\ n = 0 =>
                  /\ files_read' = files_read
                  /\ Len(sources') > Len(sources) =>
                        sources'[Len(sources')].ci = group.items
             /\ (n = 1 /\ UdlAbsent(group)) => fatal
             /\ n >= 2 =>
                  /\ fatal
                  /\ result'[2].msg \in {MultipleUdlMsg, PackagesMsg}
                  /\ result'[2].msg = MultipleUdlMsg => result'[2].n = n
       ]_vars

\* Two UdlFile records whose files exist: the error, and nothing read.
C6_Witness ==
    /\ FailedWith(MultipleUdlMsg)
    /\ udl_files # {}
    /\ files_read = {}

\* The selector has run.
SelectorRan ==
    DispatchEntered \/ FailedWith(NotFoundMsg) \/ FailedWith(AmbiguousMsg)

\* The positions of the Sources whose crate identity is the filter.
Matching ==
    {k \in DOMAIN full_sources : full_sources[k].crate_name = Unwrap(crate_name)}

\* C4: with a filter, bindings are emitted and Sources returned only when
\* exactly one Source matches, and then that Source alone is kept; with no
\* match a run that gets to the filter (find_sources and create_dir_all
\* succeeded) ends with the not-found error and with several with the
\* ambiguity error, nothing being emitted; without a filter every Source is
\* kept.
C4_Selector ==
    /\ (emitted # <<>> \/ (pc = "done" /\ IsOk(result))) => SelectorRan
    /\ (SelectorRan /\ IsSome(crate_name)) =>
         /\ Cardinality(Matching) = 0 =>
               (FailedWith(NotFoundMsg) /\ emitted = <<>>)
         /\ Cardinality(Matching) >= 2 =>
               (FailedWith(AmbiguousMsg) /\ result[2].n = Cardinality(Matching)
                /\ emitted = <<>>)
         /\ Cardinality(Matching) = 1 =>
               /\ sources = <<full_sources[CHOOSE k \in Matching : TRUE]>>
               /\ ~Failed \/ result[2].msg \in {ValidationMsg, "write_bindings"}
               /\ (pc = "done" /\ IsOk(result)) => result = Ok(sources)
    /\ (SelectorRan /\ ~IsSome(crate_name)) =>
         /\ sources = full_sources
         /\ (pc = "done" /\ IsOk(result)) => result = Ok(full_sources)

\* Two Sources with the filter's crate identity: the ambiguity error.
C4_Witness == FailedWith(AmbiguousMsg) /\ emitted = <<>>

(***************************************************************************)
(* find_package_by_crate_name (checked under SpecPkg).                     *)
(***************************************************************************)
\* t, with every hyphen read as an underscore, is c.
SameNormalized(t, c) ==
    /\ Len(t) = Len(c)
    /\ \A k \in 1..Len(t) : IF t[k] = "-" THEN c[k] = "_" ELSE c[k] = t[k]

PackagesMatching ==
    {k \in DOMAIN cargo_packages :
        \E t \in cargo_packages[k].targets : SameNormalized(t, resolve_name)}

\* C5: the call returns package P exactly when P is the only package with
\* a target whose normalized name is the crate identity; with none it
\* returns an error that says 0 packages, with several an error that says
\* how many, so the two errors differ.
C5_PackageResolver ==
    pc = "find_package_by_crate_name returned" =>
       /\ Cardinality(PackagesMatching) = 1 =>
             result = Ok(cargo_packages[CHOOSE k \in PackagesMatching : TRUE])
       /\ Cardinality(PackagesMatching) = 0 =>
             (IsErr(result) /\ result[2].n = 0)
       /\ Cardinality(PackagesMatching) >= 2 =>
             (IsErr(result) /\ result[2].n = Cardinality(PackagesMatching))
       /\ IsOk(result) => Cardinality(PackagesMatching) = 1

\* Two packages with a target a-b, resolving a_b: the error says 2.
C5_Witness ==
    /\ pc = "find_package_by_crate_name returned"
    /\ resolve_name = N_a_b
    /\ \E k \in PackagesMatching : N_a_hy_b \in cargo_packages[k].targets
    /\ IsErr(result) /\ result[2].n = 2

(***************************************************************************)
(* calc_cdylib_name (checked under SpecCdylib).                            *)
(***************************************************************************)
EndsWith(s, x) ==
    Len(s) >= Len(x) /\ \A k \in 1..Len(x) : s[Len(s) - Len(x) + k] = x[k]

\* C7: for lib<X>.so, lib<X>.dylib and <X>.dll the call returns X, also
\* when X begins with lib; for a base name that ends in none of .so, .dll,
\* .dylib it returns nothing.
C7_ArtifactIdentifier ==
    pc = "calc_cdylib_name returned" =>
       /\ \A X \in LibNames :
             library_path \in {LIB \o X \o SO, LIB \o X \o DYLIB, X \o DLL} =>
                cdylib_name = Some(X)
       /\ (~EndsWith(library_path, SO) /\ ~EndsWith(library_path, DLL)
           /\ ~EndsWith(library_path, DYLIB)) => cdylib_name = None

====
